---- MODULE Spec2Model ----
(***************************************************************************)
(* The Ogg Vorbis audio source of src/engine/audio.c as a state machine:   *)
(* rbtk_source_ogg / open_vorbis_decoder (open phase), rbtk_read_pcm /     *)
(* read_vorbis_pcm / write_vorbis_samples (steady state) and               *)
(* rbtk_close_audio_source / close_vorbis_source (close).                  *)
(*                                                                         *)
(* The byte source (RBTK_IN_STREAM) and the stb_vorbis push-data decoder   *)
(* are the environment.  A stream is a header of strm.hdr bytes followed   *)
(* by frames of strm.frames[i].size bytes that decode to                   *)
(* strm.frames[i].samples samples per channel.  The decoder parses an      *)
(* item once all of its bytes are among the bytes it is handed.            *)
(***************************************************************************)
EXTENDS Integers, Sequences, FiniteSets, TLC

\* ---------------------------------------------------------------- constants

MIN_BUFSIZE == 4096

MAX_BUFSIZE == 176400

VORBIS_BITS_PER_SAMPLE == 16

VORBIS_BYTES_PER_SAMPLE == 2

EOF == -1

\* The value rbtk_read_pcm is documented to return on error.
INT_MAX == 2147483647

\* The largest size_t, returned by double_buffer_size on error.  It is only
\* ever compared with byte counts, never added to.
SIZE_MAX == 2147483647

\* Largest number of bytes a byte source of the "short" kind returns per pull.
ShortPull == 500

\* The most allocations that fail in one run.
MaxOom == 1

\* A pull size no request of the program exceeds: a source of the "full"
\* kind returns everything that was asked for while it has it.
FullPull == SIZE_MAX

Min(a, b) == IF a <= b THEN a ELSE b

\* ------------------------------------------------------------------ inputs

\* Compressed streams behind a byte source.  size is the length of the byte
\* source, pull the most bytes it returns per pull; bad marks a header the
\* decoder rejects with an error other than need-more-data.
Stream(hdr, bad, size, pull, channels, rate, frames) ==
  [hdr |-> hdr, bad |-> bad, size |-> size, pull |-> pull, channels |-> channels,
   rate |-> rate, frames |-> frames]

Frame(size, samples) == [size |-> size, samples |-> samples]

Streams ==
  { Stream(100, FALSE, 700, p, 2, 44100,
           << Frame(200, 4), Frame(200, 4), Frame(200, 4) >>) : p \in {FullPull, ShortPull} }
  \cup
  { Stream(5000, FALSE, 11500, p, 2, 22050,
           << Frame(6000, 2), Frame(200, 0), Frame(300, 3) >>) : p \in {FullPull, ShortPull} }
  \cup
  { Stream(100, FALSE, 500, p, 3, 48000,
           << Frame(200, 2), Frame(200, 2) >>) : p \in {FullPull, ShortPull} }
  \cup
  { Stream(500000, FALSE, 400000, FullPull, 2, 44100, << >>),
    Stream(140000, FALSE, 140200, FullPull, 1, 8000, << Frame(200, 2) >>),
    Stream(100, TRUE, 700, FullPull, 2, 44100, << >>),
    Stream(5000, FALSE, 4500, FullPull, 2, 44100, << >>),
    Stream(100, FALSE, 500, FullPull, 1, 8000, << Frame(200, 2), Frame(200, 0) >>),
    Stream(100, FALSE, 300300, FullPull, 2, 44100,
           << Frame(200, 4), Frame(400000, 1) >>) }

\* Buffer lengths a caller passes to rbtk_read_pcm.
Lens == {0, 1, 4, 6, 12, 1024}

\* Read offsets a caller passes to rbtk_read_pcm.
Offsets == {0, 4100}

ErrorCodes == {"NONE", "OUT_OF_MEMORY", "IO"}

VARIABLES
  ndebug,     \* TRUE: built with NDEBUG (assert and the abort in rbtk_signal_error compiled out)
  strm,       \* the compressed stream behind the byte source
  srcPos,     \* bytes pulled from the byte source so far
  decFrame,   \* frames the decoder has consumed so far
  vorbis,     \* rbtk_vorbis_audio_source
  loc,        \* locals of the call in progress
  heap,       \* live allocations
  pc,         \* position of the caller / the call in progress
  err,        \* the last error signalled
  ret,        \* value returned by the last completed call
  info,       \* rbtk_audio_source_info of the wrapper
  out,        \* bytes written to the caller's buffer by the current read_pcm call
  hist,       \* history: what the calls did so far
  cb,         \* a call of a chunked buffering routine: its source, locals and heap
  conv,       \* a decoded sample and the PCM value written for it
  snd,        \* sounds buffered from audio sources, and the maintained list
  mem,        \* a memory input stream and the calls made on it
  inOpen,     \* whether the byte source (RBTK_IN_STREAM) is still open
  eng         \* the engine, its games and their game states

vars == << ndebug, strm, srcPos, decFrame, vorbis, loc, heap, pc, err,
           ret, info, out, hist, cb, conv, snd, mem, inOpen, eng >>

\* What no operation of the audio source touches.
env == << ndebug, strm, cb, conv, snd, mem, inOpen, eng >>

\* What rbtk_close_audio_source has no access to.
closeEnv == << ndebug, strm, cb, conv, snd, mem, eng >>

\* What no step of the chunked buffering routines touches.
audio == << ndebug, strm, srcPos, decFrame, vorbis, loc, heap, pc, err,
            ret, info, out, hist, conv, snd, mem, inOpen, eng >>

\* ------------------------------------------------------------ byte source

\* rbtk_read_bytes: the number of bytes a pull of len bytes returns; 0 only
\* when the source is exhausted (or nothing was asked for).  len is a
\* size_t: a difference that went below zero has wrapped to a value larger
\* than any source.
ReadBytes(len) ==
  Min(Min(IF len < 0 THEN SIZE_MAX ELSE len, strm.size - srcPos), strm.pull)

\* ---------------------------------------------------------------- decoder

\* stb_vorbis_open_pushdata handed `given` bytes of which the first `valid`
\* were pulled from the source.  Bytes past `valid` are uninitialised, so a
\* parse that runs into them can end any way: need-more-data, an error, or
\* a decoder that claims to have consumed bytes it was never given.
OpenOutcomes(valid, given) ==
  IF strm.bad
    THEN {[ok |-> FALSE, error |-> "invalid", consumed |-> 0, junk |-> FALSE]}
  ELSE IF strm.hdr <= valid
    THEN {[ok |-> TRUE, error |-> "none", consumed |-> strm.hdr, junk |-> FALSE]}
  ELSE {[ok |-> FALSE, error |-> "need_more_data", consumed |-> 0, junk |-> FALSE]}
       \cup (IF valid < given
               THEN {[ok |-> FALSE, error |-> "invalid", consumed |-> 0, junk |-> TRUE],
                     [ok |-> TRUE, error |-> "none", consumed |-> given, junk |-> TRUE]}
               ELSE {})

\* stb_vorbis_decode_frame_pushdata, likewise: bytes_used = 0 is
\* need-more-data; frame is the index of the decoded frame.
DecodeOutcomes(valid, given) ==
  IF decFrame < Len(strm.frames) /\ strm.frames[decFrame + 1].size <= valid
    THEN {[bytes_used |-> strm.frames[decFrame + 1].size,
           samples |-> strm.frames[decFrame + 1].samples,
           frame |-> decFrame + 1, junk |-> FALSE]}
  ELSE {[bytes_used |-> 0, samples |-> 0, frame |-> 0, junk |-> FALSE]}
       \cup (IF valid < given
               THEN {[bytes_used |-> given, samples |-> 1, frame |-> 0, junk |-> TRUE]}
               ELSE {})

\* ------------------------------------------------------------------- state

NullVorbis ==
  [buffer |-> 0, buffer_size |-> 0, buffer_offset |-> 0, decoder |-> FALSE,
   header_size |-> 0, expected_offset |-> 0, channels |-> 0,
   outputs |-> 0, outputs_index |-> 0, outputs_size |-> 0,
   \* the first buffer_offset bytes of buffer are no longer the bytes
   \* [srcPos - buffer_offset, srcPos) of the source
   garbled |-> FALSE]

NoLocals ==
  [bufsize |-> 0, read_offset |-> 0, off |-> 0, len |-> 0, bytes_written |-> 0,
   read |-> 0]

EmptyHeap ==
  [ctx |-> FALSE, wrapper |-> FALSE, decoder |-> FALSE, bufs |-> {}, corrupt |-> FALSE]

NoInfo == [frequency_hz |-> 0, channel_count |-> 0, bits_per_sample |-> 0]

\* srcPos, buffer offset and capacity when a growth failed (-1: none did).
NoOom == [pos |-> -1, offset |-> -1, size |-> -1]

\* No chunked buffering call is under way.
NoBuffering ==
  [routine |-> "none", pulls |-> << >>, pos |-> 1, pc |-> "idle", read |-> 0,
   chunks |-> << >>, chunk_count |-> 0, data_size |-> 0, malloc_failure |-> FALSE,
   live |-> {}, freed |-> << >>, pulled |-> << >>, ooms |-> 0, signalled |-> "NONE",
   result |-> "none", content |-> << >>, buffers |-> 0, size |-> -1]

\* No sample is being converted.
NoSample == [num |-> 0, done |-> FALSE, pcm |-> 0, lo |-> 0, hi |-> 0]

NoHist ==
  [op |-> "none",          \* the operation called last
   sizes |-> << >>,        \* capacities of the compressed buffers allocated, in order
   grown |-> FALSE,        \* the last loop iteration grew the buffer and pulled
   pulled |-> 0,           \* bytes returned by the last pull
   attempts |-> 0,         \* decoder calls made by the call in progress
   pulls |-> 0,            \* pulls made by the call in progress
   junk |-> FALSE,         \* the decoder answered from bytes it was never given
   ooms |-> 0,             \* allocations that failed
   freed |-> << >>,        \* capacities of the compressed buffers freed, in order
   closes |-> 0,           \* stb_vorbis_close calls made
   signalled |-> "NONE",   \* the error signalled by the call in progress / last call
   oomAt |-> NoOom,        \* where the last growth that failed found the context
   pre |-> NullVorbis,     \* the context at entry of the last read_pcm call
   prePos |-> 0,           \* srcPos at entry of the last read_pcm call
   len |-> 0,              \* len of the last read_pcm call
   aligned |-> TRUE,       \* every len so far was a positive multiple of the sample-frame size
   eof |-> FALSE,          \* a read_pcm call has returned end-of-source
   delivered |-> << >>,    \* bytes returned to the caller before the first end-of-source
   total |-> 0]            \* sum of the non-negative values read_pcm returned

\* Most audio sources, and most sounds, a client creates, and most times it
\* calls rbtk_close_audio_source on a source.
MaxSources == 2

MaxCloses == 2

SourceIds == 1 .. MaxSources

SoundIds == 1 .. MaxSources

\* An RBTK_AUDIO_SOURCE slot nothing has been created in, an RBTK_SOUND slot
\* likewise, and the audio module before priv_rbtk_audio_init.
NoSource == [state |-> "none", closes |-> 0, wrapper |-> "none", sound |-> 0]

NoSoundSlot == [state |-> "none", src |-> 0, plat |-> "none", al |-> FALSE,
                maintained |-> FALSE,
                calls |-> 0,        \* rbtk_close_sound calls made on the sound
                plat_closes |-> 0,  \* plat_rbtk_close_sound calls made on it
                unlinked |-> 0]     \* times its element was removed from the list

NoSound ==
  [initialized |-> FALSE,
   sources |-> [s \in SourceIds |-> NoSource],
   sounds |-> [k \in SoundIds |-> NoSoundSlot],
   maintained |-> << >>,     \* maintained_head .. maintained_tail
   op |-> "none",            \* the operation called last
   ooms |-> 0,
   signalled |-> "NONE",
   pc |-> "running"]

\* rbtk_memory_in_stream_src before rbtk_open_memory_in_stream, with the
\* record of the calls made on the stream and of a rbtk_buffer_remaining
\* call on it.
NoMemory ==
  [state |-> "none", len |-> 0, pos |-> 0,
   segs |-> << >>,           \* per rbtk_read_bytes call: pos before, first source
                             \* byte copied, bytes returned, pos after
   buf |-> [pc |-> "idle", read |-> 0, chunk_count |-> 0, data_size |-> 0,
            remaining |-> 0, result |-> "none", size |-> -1, signalled |-> "NONE"]]

\* Most games and most game states a client creates, and most
\* rbtk_add_game_state calls it makes.
MaxGames == 2

MaxAdds == 3

GameIds == 1 .. MaxGames

StateIds == 1 .. MaxGames

RBTK_MAX_GAME_STATES == 16

\* An RBTK_GAME and an RBTK_GAME_STATE not created yet, and the last call
\* made by the client (none yet).
NoGame == [exists |-> FALSE, running |-> FALSE, stopped |-> FALSE,
           states |-> << >>]          \* states[0 .. state_count)

NoGameState == [exists |-> FALSE, owner |-> 0, inits |-> 0]

NoCall == [op |-> "none", game |-> 0, state |-> 0, returned |-> "none",
           signalled |-> "NONE",
           initialized |-> FALSE, games |-> << >>, states |-> << >>]

\* The modules of the engine.
ModuleIds == {"audio", "graphics", "input"}

\* What the last rbtk_engine_terminate call did: whether it found the engine
\* initialized, and how often it called the terminate function of each module.
NoTerminate == [ran |-> FALSE, calls |-> [m \in ModuleIds |-> 0]]

\* The engine before rbtk_engine_init: static storage is zeroed.
NoEngine ==
  [initialized |-> FALSE,
   current_game |-> 0,
   games |-> [g \in GameIds |-> NoGame],
   states |-> [s \in StateIds |-> NoGameState],
   adds |-> 0,
   modules |-> [m \in ModuleIds |-> FALSE],   \* `initialized` of each module
   term |-> NoTerminate,
   pc |-> "idle",             \* "loop": inside the loop of rbtk_start_game
   last |-> NoCall]

Init ==
  /\ ndebug \in BOOLEAN
  /\ strm \in Streams
  /\ srcPos = 0
  /\ decFrame = 0
  /\ vorbis = NullVorbis
  /\ loc = NoLocals
  /\ heap = EmptyHeap
  /\ pc = "start"
  /\ err = "NONE"
  /\ ret = 0
  /\ info = NoInfo
  /\ out = << >>
  /\ hist = NoHist
  /\ cb = NoBuffering
  /\ conv = NoSample
  /\ snd = NoSound
  /\ mem = NoMemory
  /\ inOpen = TRUE
  /\ eng = NoEngine

\* malloc: whether the next allocation can succeed or fail.
MallocOutcomes == IF hist.ooms < MaxOom THEN BOOLEAN ELSE {TRUE}

\* rbtk_signal_error: records the error; a build without NDEBUG then fails
\* assert(RBTK_ERROR_NONE) and the process aborts.
Aborts == ~ndebug

\* A growth by one more MIN_BUFSIZE instead of a doubling.
DoubleBufferSizeByStep(bufs, bufsize, ok) ==
  IF ok
    THEN [bufs |-> (bufs \ {bufsize}) \cup {bufsize + MIN_BUFSIZE},
          bufsize |-> bufsize + MIN_BUFSIZE,
          unused |-> MIN_BUFSIZE,
          freed |-> << bufsize >>,
          failed |-> FALSE]
    ELSE [bufs |-> bufs, bufsize |-> bufsize, unused |-> SIZE_MAX, freed |-> << >>,
          failed |-> TRUE]

\* A growth that keeps the superseded buffer allocated.
DoubleBufferSizeKeepsOld(bufs, bufsize, ok) ==
  [bufs |-> IF ok THEN bufs \cup {bufsize * 2} ELSE bufs,
   bufsize |-> IF ok THEN bufsize * 2 ELSE bufsize,
   unused |-> IF ok THEN bufsize ELSE SIZE_MAX,
   freed |-> << >>,
   failed |-> ~ok]

\* double_buffer_size: allocate twice the size, copy, free the old buffer.
\* ok is whether malloc succeeds.  On failure nothing changes and SIZE_MAX
\* is returned as the number of unused bytes.
DoubleBufferSize(bufs, bufsize, ok) ==
  IF ok
    THEN [bufs |-> (bufs \ {bufsize}) \cup {bufsize * 2},
          bufsize |-> bufsize * 2,
          unused |-> bufsize * 2 - bufsize,
          freed |-> << bufsize >>,
          failed |-> FALSE]
    ELSE [bufs |-> bufs, bufsize |-> bufsize, unused |-> SIZE_MAX, freed |-> << >>,
          failed |-> TRUE]

\* shift_unconsumed_to_front: the new value of *read.  With consumed > *read
\* the size_t subtraction wraps and the memcpy runs off the buffer; callers
\* below treat that case as a crash.
ShiftUnconsumedToFront(read, consumed) == read - consumed

\* The memcpy of shift_unconsumed_to_front copies `read - consumed` bytes from
\* cbuf + consumed to cbuf: the two ranges overlap when more bytes are left
\* than were consumed.
ShiftOverlaps(read, consumed) == read - consumed > consumed

\* Whether the bytes at the front of the buffer differ from the unconsumed
\* bytes after the shift.  memcpy between overlapping ranges is undefined: it
\* may copy as memmove would, or in an order that overwrites bytes before
\* they are copied.
ShiftGarbles(read, consumed) ==
  IF ShiftOverlaps(read, consumed) THEN {FALSE, TRUE} ELSE {FALSE}

\* `bufsize >= MAX_BUFSIZE`, the cap test made before each growth.
AtCap(bufsize) == bufsize >= MAX_BUFSIZE

\* `read < 0` on a size_t (open_vorbis_decoder, after the pull that follows
\* a growth): an unsigned value is never negative.
ReadIsNegative(read) == FALSE

\* ------------------------------------------------------------- open phase

\* rbtk_source_ogg up to the first decoder attempt: allocate the context,
\* allocate the MIN_BUFSIZE buffer, pull into it from offset 0.
SourceOgg ==
  /\ pc = "start"
  /\ \E ctxOk \in MallocOutcomes, bufOk \in MallocOutcomes :
       LET n == ReadBytes(MIN_BUFSIZE) IN
       IF ~ctxOk
         THEN /\ bufOk
              /\ err' = "OUT_OF_MEMORY"
              /\ pc' = IF Aborts THEN "aborted" ELSE "open_failed"
              /\ hist' = [hist EXCEPT !.op = "open", !.ooms = @ + 1,
                                      !.signalled = "OUT_OF_MEMORY"]
              /\ UNCHANGED << srcPos, decFrame, vorbis, loc, heap, ret, info, out >>
       ELSE IF ~bufOk
         THEN /\ err' = "OUT_OF_MEMORY"
              /\ pc' = IF Aborts THEN "aborted" ELSE "open_failed"
              \* open_vorbis_decoder returns false; rbtk_source_ogg frees the context
              /\ heap' = [heap EXCEPT !.ctx = Aborts]
              /\ hist' = [hist EXCEPT !.op = "open", !.ooms = @ + 1,
                                      !.signalled = "OUT_OF_MEMORY"]
              /\ UNCHANGED << srcPos, decFrame, vorbis, loc, ret, info, out >>
       ELSE /\ heap' = [heap EXCEPT !.ctx = TRUE, !.bufs = {MIN_BUFSIZE}]
            /\ loc' = [NoLocals EXCEPT !.bufsize = MIN_BUFSIZE, !.read_offset = n]
            /\ srcPos' = srcPos + n
            /\ pc' = "open_loop"
            /\ hist' = [hist EXCEPT !.op = "open", !.sizes = << MIN_BUFSIZE >>,
                                    !.pulled = n, !.pulls = 1]
            /\ UNCHANGED << decFrame, vorbis, err, ret, info, out >>
  /\ UNCHANGED env

\* The decoder opened: shift the unconsumed bytes to the front, fill in the
\* context, then rbtk_source_ogg reads the stream info and allocates the
\* wrapper (rbtk_source_audio).
OpenSucceeds(o, ok) ==
  IF o.consumed > loc.read_offset
    THEN /\ ok
         /\ pc' = "crashed"
         /\ hist' = [hist EXCEPT !.attempts = @ + 1, !.junk = @ \/ o.junk]
         /\ UNCHANGED << srcPos, decFrame, vorbis, loc, heap, err, ret, info, out >>
    ELSE /\ \E g \in ShiftGarbles(loc.read_offset, o.consumed) :
              /\ vorbis' = [vorbis EXCEPT
                              !.buffer = loc.bufsize,
                              !.buffer_size = loc.bufsize,
                              !.buffer_offset =
                                ShiftUnconsumedToFront(loc.read_offset, o.consumed),
                              !.decoder = TRUE,
                              !.header_size = o.consumed,
                              !.channels = strm.channels,
                              !.garbled = g]
         /\ hist' = [hist EXCEPT !.attempts = @ + 1, !.junk = @ \/ o.junk,
                                 !.ooms = IF ok THEN @ ELSE @ + 1, !.grown = FALSE,
                                 !.signalled = IF ok THEN @ ELSE "OUT_OF_MEMORY"]
         /\ heap' = [heap EXCEPT !.decoder = TRUE, !.wrapper = ok]
         /\ IF ok
              THEN /\ info' = [frequency_hz |-> strm.rate,
                               channel_count |-> strm.channels,
                               bits_per_sample |-> VORBIS_BITS_PER_SAMPLE]
                   /\ pc' = "ready"
                   /\ err' = err
              ELSE /\ info' = info
                   /\ pc' = IF Aborts THEN "aborted" ELSE "open_failed"
                   /\ err' = "OUT_OF_MEMORY"
         /\ loc' = NoLocals
         /\ UNCHANGED << srcPos, decFrame, ret, out >>

\* An error other than need-more-data, or the cap: signal IO and return
\* false; rbtk_source_ogg frees the context and returns NULL.
OpenFails(o, ok) ==
  /\ ok
  /\ err' = "IO"
  /\ pc' = IF Aborts THEN "aborted" ELSE "open_failed"
  /\ heap' = [heap EXCEPT !.ctx = Aborts]
  /\ hist' = [hist EXCEPT !.attempts = @ + 1, !.junk = @ \/ o.junk, !.grown = FALSE,
                          !.signalled = "IO"]
  /\ UNCHANGED << srcPos, decFrame, vorbis, loc, ret, info, out >>

\* Need-more-data below the cap: double the buffer and pull into the unused
\* part (all of SIZE_MAX bytes when the allocation failed).
OpenGrows(o, ok) ==
  LET d == DoubleBufferSize(heap.bufs, loc.bufsize, ok)
      read == ReadBytes(d.unused)
      overrun == loc.read_offset + read > d.bufsize
  IN  IF d.failed /\ Aborts
        THEN /\ err' = "OUT_OF_MEMORY"
             /\ pc' = "aborted"
             /\ hist' = [hist EXCEPT !.attempts = @ + 1, !.ooms = @ + 1,
                                     !.signalled = "OUT_OF_MEMORY",
                                     !.oomAt = [pos |-> srcPos, offset |-> loc.read_offset,
                                                size |-> loc.bufsize]]
             /\ UNCHANGED << srcPos, decFrame, vorbis, loc, heap, ret, info, out >>
      ELSE /\ err' = IF d.failed THEN "OUT_OF_MEMORY"
                     ELSE IF ReadIsNegative(read) THEN "IO" ELSE err
           /\ srcPos' = srcPos + read
           /\ loc' = [loc EXCEPT !.bufsize = d.bufsize, !.read_offset = @ + read]
           /\ hist' = [hist EXCEPT !.attempts = @ + 1, !.ooms = IF d.failed THEN @ + 1 ELSE @,
                                   !.sizes = IF d.failed THEN @ ELSE Append(@, d.bufsize),
                                   !.freed = @ \o d.freed
                                               \o (IF ReadIsNegative(read)
                                                     THEN << d.bufsize >> ELSE << >>),
                                   !.signalled = IF d.failed THEN "OUT_OF_MEMORY"
                                                 ELSE IF ReadIsNegative(read) THEN "IO"
                                                 ELSE @,
                                   !.oomAt = IF d.failed
                                               THEN [pos |-> srcPos,
                                                     offset |-> loc.read_offset,
                                                     size |-> loc.bufsize]
                                               ELSE @,
                                   !.grown = TRUE, !.pulled = read, !.pulls = @ + 1]
           /\ IF ReadIsNegative(read)
                THEN /\ heap' = [heap EXCEPT !.bufs = d.bufs \ {d.bufsize}, !.ctx = Aborts]
                     /\ pc' = IF Aborts THEN "aborted" ELSE "open_failed"
                ELSE /\ heap' = [heap EXCEPT !.bufs = d.bufs, !.corrupt = @ \/ overrun]
                     \* writing past the end of the allocation is undefined
                     /\ pc' \in (IF overrun THEN {"crashed", "open_loop"} ELSE {"open_loop"})
           /\ UNCHANGED << decFrame, vorbis, ret, info, out >>

\* The length open_vorbis_decoder hands to stb_vorbis_open_pushdata:
\* `(int) bufsize`, the capacity of the buffer.
OpenGiven == loc.bufsize

\* The length read_vorbis_pcm hands to stb_vorbis_decode_frame_pushdata:
\* `(int) vorbis->buffer_size`, the capacity of the buffer.
DecodeGiven == vorbis.buffer_size

\* The decoder is followed only while the buffer holds the bytes of the
\* stream: what stb_vorbis makes of a buffer an overlapping copy has garbled
\* is outside this development, and such a source can only be closed.
BufferHoldsStream == ~vorbis.garbled

\* One iteration of the while (!decoder) loop of open_vorbis_decoder, and on
\* success the rest of open_vorbis_decoder and of rbtk_source_ogg.
OpenAttempt ==
  /\ pc = "open_loop"
  /\ \E o \in OpenOutcomes(loc.read_offset, OpenGiven), ok \in MallocOutcomes :
       IF o.ok THEN OpenSucceeds(o, ok)
       ELSE IF o.error # "need_more_data" THEN OpenFails(o, ok)
       ELSE IF AtCap(loc.bufsize) THEN OpenFails(o, ok)
       ELSE OpenGrows(o, ok)
  /\ UNCHANGED env

\* ----------------------------------------------------------- steady state

ChannelSize(channels) == VORBIS_BYTES_PER_SAMPLE * channels

\* A room test that only asks whether the buffer is already full.
NoRoomLoose(off, channel_size, len) == off >= len

\* `off + channel_size > len`: no more room for a sample of every channel.
NoRoom(off, channel_size, len) == off + channel_size > len

\* The for loop of write_vorbis_samples: the sample index s it stops at, the
\* first one from sample_index on with s >= sample_count or no room left
\* (off has advanced by channel_size per sample written).
WriteLoopEnd(sample_index, sample_count, off, channel_size, len) ==
  IF sample_index >= sample_count
    THEN sample_index
    ELSE LET Exits(s) == s >= sample_count
                         \/ NoRoom(off + (s - sample_index) * channel_size,
                                   channel_size, len)
         IN  CHOOSE s \in sample_index .. sample_count :
               Exits(s) /\ \A t \in sample_index .. s - 1 : ~Exits(t)

\* A loop that writes channel after channel (planar), every sample of a
\* channel in turn.
PcmBytesPlanar(frame, first, n, channels) ==
  [i \in 1 .. n * ChannelSize(channels) |->
     << frame,
        first + ((i - 1) % (n * VORBIS_BYTES_PER_SAMPLE)) \div VORBIS_BYTES_PER_SAMPLE,
        (i - 1) \div (n * VORBIS_BYTES_PER_SAMPLE),
        (i - 1) % VORBIS_BYTES_PER_SAMPLE >>]

\* The bytes the loop writes for samples first .. first + n - 1 of `frame`:
\* per sample every channel in turn, per channel the low byte (0) then the
\* high byte (1) of its 16-bit PCM value.
PcmBytes(frame, first, n, channels) ==
  [i \in 1 .. n * ChannelSize(channels) |->
     << frame,
        first + (i - 1) \div ChannelSize(channels),
        ((i - 1) % ChannelSize(channels)) \div VORBIS_BYTES_PER_SAMPLE,
        (i - 1) % VORBIS_BYTES_PER_SAMPLE >>]

\* write_vorbis_samples(vorbis, &bytes_written, buf, len): the context and
\* *bytes_written afterwards, and the bytes appended to buf.
WriteVorbisSamples(v, bytes_written, len) ==
  IF v.outputs = 0
    THEN [vorbis |-> v, bytes_written |-> bytes_written, bytes |-> << >>]
    ELSE LET stop == WriteLoopEnd(v.outputs_index, v.outputs_size, bytes_written,
                                  ChannelSize(v.channels), len)
             n == stop - v.outputs_index
         IN  [vorbis |-> IF stop >= v.outputs_size
                           THEN [v EXCEPT !.outputs = 0, !.outputs_size = 0,
                                          !.outputs_index = 0]
                           ELSE [v EXCEPT !.outputs_index = stop],
              bytes_written |-> bytes_written + n * ChannelSize(v.channels),
              bytes |-> PcmBytes(v.outputs, v.outputs_index, n, v.channels)]

\* Bookkeeping that stores the count of the call instead of adding it.
StoreBytesWritten(expected_offset, bytes_written) == bytes_written

\* `vorbis->expected_offset += bytes_written`
AddBytesWritten(expected_offset, bytes_written) == expected_offset + bytes_written

\* A full test that misses the exactly-full buffer.
BufferFilledStrict(bytes_written, len) == bytes_written > len

\* `bytes_written >= len` after the pending samples were written.
BufferFilled(bytes_written, len) == bytes_written >= len

\* `read <= 0` on the size_t returned by the first pull of the call.
NoMoreData(read) == read <= 0

\* The overrun assertion of rbtk_read_pcm.
OverrunCheck(read, len) == read < 0 \/ read <= len

\* read_vorbis_pcm returns `value` through rbtk_read_pcm.
Return(value, len, bytes) ==
  /\ ret' = value
  /\ pc' = IF ~ndebug /\ ~OverrunCheck(value, len) THEN "assert_overrun" ELSE "ready"
  /\ out' = bytes
  /\ loc' = NoLocals

Delivered(h, value, bytes) ==
  [h EXCEPT !.eof = @ \/ value < 0,
            !.total = IF value >= 0 THEN @ + value ELSE @,
            !.delivered = IF h.eof \/ value < 0 THEN @
                          ELSE @ \o SubSeq(bytes, 1, Min(value, Len(bytes)))]

\* rbtk_read_pcm(src, off, buf, len) up to the decode loop: write the
\* pending samples; return if the buffer is full, else pull into the room
\* left in the compressed buffer.
\* A call that takes the offset as the number of bytes already written.
BytesWrittenFromOffset(off) == off

\* `size_t bytes_written = 0` at the entry of read_vorbis_pcm: the parameter
\* off is not used.
BytesWrittenAtEntry(off) == 0

\* read_vorbis_pcm(src, vorbis, off, buf, len) up to its first pull: pending
\* samples are written; if they fill the buffer the call returns, otherwise
\* the free part of the compressed buffer is topped up from the source.
ReadPcmCall(off, len) ==
  LET w == WriteVorbisSamples(vorbis, BytesWrittenAtEntry(off), len)
      read == ReadBytes(w.vorbis.buffer_size - w.vorbis.buffer_offset)
  IN  IF BufferFilled(w.bytes_written, len)
        THEN [returns |-> TRUE,
              vorbis |-> [w.vorbis EXCEPT
                            !.expected_offset = AddBytesWritten(@, w.bytes_written)],
              bytes |-> w.bytes, bytes_written |-> w.bytes_written,
              srcPos |-> srcPos, read |-> 0]
        ELSE [returns |-> FALSE,
              vorbis |-> [w.vorbis EXCEPT !.buffer_offset = @ + read],
              bytes |-> w.bytes, bytes_written |-> w.bytes_written,
              srcPos |-> srcPos + read, read |-> read]

ReadPcmWith(off, len) ==
  /\ pc = "ready"
  /\ BufferHoldsStream
  /\   LET c == ReadPcmCall(off, len)
           h == [hist EXCEPT !.op = "read", !.pre = vorbis, !.prePos = srcPos, !.len = len,
                             !.attempts = 0, !.pulls = 0, !.grown = FALSE,
                             !.signalled = "NONE", !.oomAt = NoOom,
                             !.aligned = @ /\ len > 0
                                           /\ len % ChannelSize(vorbis.channels) = 0]
       IN  IF c.returns
             THEN /\ vorbis' = c.vorbis
                  /\ Return(c.bytes_written, len, c.bytes)
                  /\ hist' = Delivered(h, c.bytes_written, c.bytes)
                  /\ UNCHANGED << srcPos, decFrame, heap, err, info >>
             ELSE /\ vorbis' = c.vorbis
                  /\ srcPos' = c.srcPos
                  /\ loc' = [NoLocals EXCEPT !.off = off, !.len = len,
                                             !.bytes_written = c.bytes_written,
                                             !.read = c.read]
                  /\ out' = c.bytes
                  /\ pc' = "read_loop"
                  /\ hist' = [h EXCEPT !.pulled = c.read, !.pulls = 1]
                  /\ UNCHANGED << decFrame, heap, err, ret, info >>
  /\ UNCHANGED env

ReadPcm == \E off \in Offsets, len \in Lens : ReadPcmWith(off, len)

\* bytes_used == 0 and nothing was pulled, or the buffer is at the cap:
\* return EOF (after signalling IO in the second case).
ReadEnds(ok) ==
  /\ ok
  /\ IF NoMoreData(loc.read)
       THEN /\ Return(EOF, loc.len, out)
            /\ hist' = Delivered([hist EXCEPT !.attempts = @ + 1], EOF, out)
            /\ err' = err
       ELSE /\ err' = "IO"
            /\ IF Aborts
                 THEN /\ pc' = "aborted"
                      /\ hist' = [hist EXCEPT !.attempts = @ + 1, !.signalled = "IO"]
                      /\ UNCHANGED << ret, out, loc >>
                 ELSE /\ Return(EOF, loc.len, out)
                      /\ hist' = Delivered([hist EXCEPT !.attempts = @ + 1,
                                                        !.signalled = "IO"], EOF, out)
  /\ UNCHANGED << srcPos, decFrame, vorbis, heap, info >>

\* bytes_used == 0 below the cap: double the buffer, pull, try again.
ReadGrows(ok) ==
  LET d == DoubleBufferSize(heap.bufs, vorbis.buffer_size, ok)
      read == ReadBytes(d.unused)
      overrun == vorbis.buffer_offset + read > d.bufsize
  IN  IF d.failed /\ Aborts
        THEN /\ err' = "OUT_OF_MEMORY"
             /\ pc' = "aborted"
             /\ hist' = [hist EXCEPT !.attempts = @ + 1, !.ooms = @ + 1,
                                     !.signalled = "OUT_OF_MEMORY",
                                     !.oomAt = [pos |-> srcPos,
                                                offset |-> vorbis.buffer_offset,
                                                size |-> vorbis.buffer_size]]
             /\ UNCHANGED << srcPos, decFrame, vorbis, loc, heap, ret, info, out >>
      ELSE /\ err' = IF d.failed THEN "OUT_OF_MEMORY" ELSE err
           /\ srcPos' = srcPos + read
           /\ vorbis' = [vorbis EXCEPT !.buffer = d.bufsize, !.buffer_size = d.bufsize,
                                       !.buffer_offset = @ + read]
           /\ heap' = [heap EXCEPT !.bufs = d.bufs, !.corrupt = @ \/ overrun]
           /\ hist' = [hist EXCEPT !.attempts = @ + 1,
                                   !.ooms = IF d.failed THEN @ + 1 ELSE @,
                                   !.sizes = IF d.failed THEN @ ELSE Append(@, d.bufsize),
                                   !.freed = @ \o d.freed,
                                   !.signalled = IF d.failed THEN "OUT_OF_MEMORY" ELSE @,
                                   !.oomAt = IF d.failed
                                               THEN [pos |-> srcPos,
                                                     offset |-> vorbis.buffer_offset,
                                                     size |-> vorbis.buffer_size]
                                               ELSE @,
                                   !.grown = TRUE, !.pulled = read, !.pulls = @ + 1]
           /\ pc' \in (IF overrun THEN {"crashed", "read_loop"} ELSE {"read_loop"})
           /\ UNCHANGED << decFrame, loc, ret, info, out >>

\* bytes_used > 0: shift the consumed bytes out; with samples the loop ends
\* and the new frame is written to the caller's buffer.
ReadConsumes(o, ok) ==
  /\ ok
  /\ IF o.bytes_used > vorbis.buffer_offset
       THEN \* the assertion fails, or without it the shift wraps
            /\ pc' = IF ndebug THEN "crashed" ELSE "assert_consumed"
            /\ hist' = [hist EXCEPT !.attempts = @ + 1, !.junk = @ \/ o.junk]
            /\ UNCHANGED << decFrame, vorbis, loc, ret, out >>
       ELSE \E g \in ShiftGarbles(vorbis.buffer_offset, o.bytes_used) :
            LET v == [vorbis EXCEPT
                        !.buffer_offset = ShiftUnconsumedToFront(@, o.bytes_used),
                        !.outputs = o.frame,
                        !.garbled = @ \/ g]
                w == WriteVorbisSamples([v EXCEPT !.outputs_index = 0,
                                                  !.outputs_size = o.samples],
                                        loc.bytes_written, loc.len)
                value == IF w.bytes_written > 0 THEN w.bytes_written ELSE EOF
            IN  /\ decFrame' = decFrame + 1
                /\ IF o.samples = 0
                     THEN /\ vorbis' = v
                          /\ pc' = "read_loop"
                          /\ hist' = [hist EXCEPT !.attempts = @ + 1, !.grown = FALSE]
                          /\ UNCHANGED << loc, ret, out >>
                     ELSE /\ vorbis' = IF w.bytes_written > 0
                                         THEN [w.vorbis EXCEPT
                                                 !.expected_offset =
                                                   AddBytesWritten(@, w.bytes_written)]
                                         ELSE w.vorbis
                          /\ Return(value, loc.len, out \o w.bytes)
                          /\ hist' = Delivered([hist EXCEPT !.attempts = @ + 1,
                                                            !.grown = FALSE],
                                               value, out \o w.bytes)
  /\ UNCHANGED << srcPos, heap, err, info >>

\* One iteration of the while (samples == 0) loop of read_vorbis_pcm, and
\* when it ends the rest of the call.
ReadDecode ==
  /\ pc = "read_loop"
  /\ BufferHoldsStream
  /\ \E o \in DecodeOutcomes(vorbis.buffer_offset, DecodeGiven),
        ok \in MallocOutcomes :
       IF o.bytes_used # 0 THEN ReadConsumes(o, ok)
       ELSE IF NoMoreData(loc.read) \/ AtCap(vorbis.buffer_size) THEN ReadEnds(ok)
       ELSE ReadGrows(ok)
  /\ UNCHANGED env

\* ------------------------------------------------------------------ close

\* A close hook that also closes the byte source it reads from.
StreamClosedWithSource(open) == FALSE

\* close_vorbis_source frees vorbis->buffer and closes the decoder;
\* vorbis->in is not used: the byte source stays as it is.
StreamAfterClose(open) == open

\* rbtk_close_audio_source: the close hook (close_vorbis_source) frees the
\* compressed buffer and closes the decoder, then the wrapper is freed.
CloseAudioSource ==
  /\ pc = "ready"
  /\ heap' = [heap EXCEPT !.bufs = @ \ {vorbis.buffer}, !.decoder = FALSE,
                          !.wrapper = FALSE]
  /\ pc' = "closed"
  /\ hist' = [hist EXCEPT !.op = "close", !.freed = Append(@, vorbis.buffer),
                          !.closes = @ + 1]
  /\ inOpen' = StreamAfterClose(inOpen)
  /\ UNCHANGED << srcPos, decFrame, vorbis, loc, err, ret, info, out >>
  /\ UNCHANGED closeEnv

Next ==
  \/ SourceOgg
  \/ OpenAttempt
  \/ ReadPcm
  \/ ReadDecode
  \/ CloseAudioSource

Spec == Init /\ [][Next]_vars

\* The same program driven by a caller whose buffer holds any whole frame.
LargeLens == {1024}

ReadPcmLarge == \E off \in Offsets, len \in LargeLens : ReadPcmWith(off, len)

NextLarge ==
  \/ SourceOgg
  \/ OpenAttempt
  \/ ReadPcmLarge
  \/ ReadDecode
  \/ CloseAudioSource

SpecLarge == Init /\ [][NextLarge]_vars

\* ------------------------------------------------------ chunked buffering

\* rbtk_buffer_remaining pulls from a byte stream with rbtk_read_bytes,
\* buffer_pcm_data from an audio source with rbtk_read_pcm; both ask for at
\* most a chunk of data per pull.
BUFFER_CHUNK_DATA_SIZE == 1024

PCM_BUFFER_CHUNK_SIZE == 1024

\* Most pulls with data a source of the buffering routines answers.
MaxPulls == 3

\* What a source returns once its pulls are used up, for ever after:
\* 0 bytes from a byte stream, EOF from an audio source.
EndOfSource(routine) == IF routine = "remaining" THEN 0 ELSE EOF

RECURSIVE PullSeqs(_, _)
\* The sequences of at most n pull results drawn from sizes.
PullSeqs(sizes, n) ==
  IF n = 0 THEN {<< >>}
  ELSE PullSeqs(sizes, n - 1)
       \cup {Append(q, z) : q \in PullSeqs(sizes, n - 1), z \in sizes}

\* Sources: a byte stream returns 1 .. 1024 bytes per pull until it is
\* exhausted; rbtk_read_pcm may also return 0 before the end of the source,
\* and the read_pcm hook of an audio source returns INT_MAX on error.
BufferingInputs ==
  {[NoBuffering EXCEPT !.routine = "remaining", !.pulls = q] :
     q \in PullSeqs({1, 1023, BUFFER_CHUNK_DATA_SIZE}, MaxPulls)}
  \cup
  {[NoBuffering EXCEPT !.routine = "pcm", !.pulls = q] :
     q \in PullSeqs({0, 4, PCM_BUFFER_CHUNK_SIZE}, MaxPulls) \cup {<< INT_MAX >>}}

\* The pull the routine makes next: rbtk_read_bytes(in, data, 0, 1024) or
\* rbtk_read_pcm(src, size, data, 1024).
NextPull(c) == IF c.pos <= Len(c.pulls) THEN c.pulls[c.pos] ELSE EndOfSource(c.routine)

\* The loop conditions: `while (read > 0)` on a size_t in
\* rbtk_buffer_remaining, `while (read != EOF)` on an int in buffer_pcm_data.
LoopContinues(routine, read) ==
  IF routine = "remaining" THEN read > 0 ELSE read # EOF

\* malloc in the buffering routines.
ChunkMallocOutcomes == IF cb.ooms < MaxOom THEN BOOLEAN ELSE {TRUE}

\* malloc(size) of the contiguous buffer; malloc(0) may return NULL or not.
FinalMallocOutcomes(size) == IF size = 0 THEN BOOLEAN ELSE ChunkMallocOutcomes

\* A walk that leaves the last node of the list allocated.
FreeAllButLast(chunks) == [i \in 1 .. Len(chunks) - 1 |-> chunks[i].id]

\* The cleanup loop and the copy loop both walk the list from chunks_head
\* and free every node: the nodes freed, in order.
FreeChunks(chunks) == [i \in 1 .. Len(chunks) |-> chunks[i].id]

\* A copy loop that takes a whole chunk of data from every node.
CopyWholeChunks(chunks) ==
  [i \in 1 .. Len(chunks) |-> [pull |-> chunks[i].pull, len |-> BUFFER_CHUNK_DATA_SIZE]]

\* The copy loop: chunk->len bytes of every chunk, in list order.  A segment
\* [pull, len] stands for the first len bytes the pull numbered `pull` returned.
CopyChunks(chunks) ==
  [i \in 1 .. Len(chunks) |-> [pull |-> chunks[i].pull, len |-> chunks[i].len]]

\* Where a pull leaves the routine: rbtk_read_pcm asserts that the hook
\* returned a negative value or at most len; rbtk_read_bytes asserts nothing
\* about the count.
AfterPull(c, read) ==
  IF c.routine = "pcm" /\ ~ndebug /\ ~OverrunCheck(read, PCM_BUFFER_CHUNK_SIZE)
    THEN "assert_overrun"
    ELSE "loop"

\* memcpy of len bytes from or to an array of a chunk of data: with len
\* beyond the array the copy runs off it, and the call crashes or goes on.
CopyOutcomes(len) ==
  IF len > BUFFER_CHUNK_DATA_SIZE THEN {"crashed", "completed"} ELSE {"completed"}

\* The call and its first pull.
BufferStart ==
  /\ cb.pc = "idle"
  /\ cb.routine # "none"
  /\ cb' = [cb EXCEPT !.pc = AfterPull(cb, NextPull(cb)),
                      !.read = NextPull(cb), !.pos = @ + 1,
                      !.pulled = << NextPull(cb) >>]
  /\ UNCHANGED audio

\* One iteration of the pull loop: allocate a node, copy the pulled bytes
\* into it, link it at the tail, pull again.
BufferChunk ==
  /\ cb.pc = "loop"
  /\ LoopContinues(cb.routine, cb.read)
  /\ \E ok \in ChunkMallocOutcomes :
       IF ~ok
         THEN cb' = [cb EXCEPT !.ooms = @ + 1, !.signalled = "OUT_OF_MEMORY",
                               !.malloc_failure = TRUE,
                               !.pc = IF Aborts THEN "aborted" ELSE "after_loop"]
         ELSE \E copy \in CopyOutcomes(cb.read) :
                IF copy = "crashed"
                  THEN cb' = [cb EXCEPT !.pc = "crashed",
                                        !.live = @ \cup {cb.chunk_count + 1},
                                        !.chunk_count = @ + 1]
                  ELSE cb' = [cb EXCEPT
                       !.chunks = Append(@, [id |-> cb.chunk_count + 1,
                                             pull |-> Len(cb.pulled),
                                             len |-> cb.read]),
                       !.live = @ \cup {cb.chunk_count + 1},
                       !.data_size = @ + cb.read,
                       !.chunk_count = @ + 1,
                       !.pc = AfterPull(cb, NextPull(cb)),
                       !.read = NextPull(cb), !.pos = @ + 1,
                       !.pulled = Append(@, NextPull(cb))]
  /\ UNCHANGED audio

\* After the loop: allocate the contiguous buffer; on any failed allocation
\* free the nodes and return NULL, else copy and free node by node, write
\* *size and return the buffer.
BufferFinish ==
  /\ \/ cb.pc = "loop" /\ ~LoopContinues(cb.routine, cb.read)
     \/ cb.pc = "after_loop"
  /\ \E ok \in FinalMallocOutcomes(cb.data_size) :
       IF cb.malloc_failure
         THEN /\ ok
              /\ cb' = [cb EXCEPT !.pc = "done", !.result = "NULL",
                                  !.live = {}, !.freed = @ \o FreeChunks(cb.chunks),
                                  !.chunks = << >>]
       ELSE IF ~ok
         THEN cb' = [cb EXCEPT
                       !.ooms = IF cb.data_size = 0 THEN @ ELSE @ + 1,
                       !.signalled = "OUT_OF_MEMORY", !.malloc_failure = TRUE,
                       !.pc = IF Aborts THEN "aborted" ELSE "done",
                       !.result = IF Aborts THEN @ ELSE "NULL",
                       !.live = IF Aborts THEN @ ELSE {},
                       !.freed = IF Aborts THEN @ ELSE @ \o FreeChunks(cb.chunks),
                       !.chunks = IF Aborts THEN @ ELSE << >>]
       ELSE \E copy \in UNION {CopyOutcomes(cb.chunks[i].len) :
                                 i \in 1 .. Len(cb.chunks)} \cup {"completed"} :
              IF copy = "crashed"
                THEN cb' = [cb EXCEPT !.pc = "crashed", !.buffers = @ + 1]
                ELSE cb' = [cb EXCEPT !.pc = "done", !.result = "buffer",
                             !.buffers = @ + 1,
                             !.content = CopyChunks(cb.chunks),
                             !.live = {}, !.freed = @ \o FreeChunks(cb.chunks),
                             !.chunks = << >>,
                             !.size = cb.data_size]
  /\ UNCHANGED audio

NextBuffering ==
  \/ BufferStart
  \/ BufferChunk
  \/ BufferFinish

InitBuffering ==
  /\ ndebug \in BOOLEAN
  /\ strm = Stream(100, FALSE, 700, FullPull, 2, 44100,
                   << Frame(200, 4), Frame(200, 4), Frame(200, 4) >>)
  /\ srcPos = 0
  /\ decFrame = 0
  /\ vorbis = NullVorbis
  /\ loc = NoLocals
  /\ heap = EmptyHeap
  /\ pc = "start"
  /\ err = "NONE"
  /\ ret = 0
  /\ info = NoInfo
  /\ out = << >>
  /\ hist = NoHist
  /\ cb \in BufferingInputs
  /\ conv = NoSample
  /\ snd = NoSound
  /\ mem = NoMemory
  /\ inOpen = TRUE
  /\ eng = NoEngine

SpecBuffering == InitBuffering /\ [][NextBuffering]_vars

\* ------------------------------------------------------ sample conversion

\* Steps a sample takes per unit of PCM value.
SampleSteps == 2

\* A decoded sample x is the float num / SampleDen, num in -SampleDen ..
\* SampleDen: the range -1.0 .. 1.0.
SampleDen == 32768 * SampleSteps

\* How many steps next to -1.0, 0 and 1.0 are tried.
NearEdge == 40

SampleNums ==
  (-SampleDen .. -SampleDen + NearEdge) \cup (-NearEdge .. NearEdge)
    \cup (SampleDen - NearEdge .. SampleDen)

\* Conversion of a real n / d to an integer type: the fraction is discarded.
Trunc(n, d) == IF n >= 0 THEN n \div d ELSE -((-n) \div d)

\* `32768 * (_sample)`, then the conversion to an integer:
\* 32768 * (num / SampleDen) = num / SampleSteps.
Scaled(num) == Trunc(num, SampleSteps)

\* `(short) f` for a float f with integer part v.  A value short cannot hold
\* makes the conversion undefined: builds keep the low 16 bits of a wider
\* conversion or saturate.
ShortCast(v) ==
  IF v \in -32768 .. 32767
    THEN {v}
    ELSE {((v + 32768) % 65536) - 32768, IF v > 0 THEN 32767 ELSE -32768}

\* rbtk_clamp_i16(val, min, max)
rbtk_clamp_i16(val, min, max) ==
  LET t == IF val < min THEN min ELSE val IN IF t > max THEN max ELSE t

\* PCM_FROM_VORBIS_SAMPLE(_sample): the values the macro can yield.
PCM_FROM_VORBIS_SAMPLE(num) ==
  {rbtk_clamp_i16(v, -32768, 32767) : v \in ShortCast(Scaled(num))}

\* (pcm & 0x00FF) >> 0 and (pcm & 0xFF00) >> 8 of the short promoted to int.
LowByte(pcm) == (pcm % 65536) % 256

HighByte(pcm) == (pcm % 65536) \div 256

\* The body of the channel loop of write_vorbis_samples for one sample.
ConvertSample ==
  /\ ~conv.done
  /\ \E pcm \in PCM_FROM_VORBIS_SAMPLE(conv.num) :
       conv' = [conv EXCEPT !.done = TRUE, !.pcm = pcm,
                            !.lo = LowByte(pcm), !.hi = HighByte(pcm)]
  /\ UNCHANGED << ndebug, strm, srcPos, decFrame, vorbis, loc, heap, pc, err,
                  ret, info, out, hist, cb, snd, mem, inOpen, eng >>

NextSample == ConvertSample

InitSample ==
  /\ ndebug \in BOOLEAN
  /\ strm = Stream(100, FALSE, 700, FullPull, 2, 44100,
                   << Frame(200, 4), Frame(200, 4), Frame(200, 4) >>)
  /\ srcPos = 0
  /\ decFrame = 0
  /\ vorbis = NullVorbis
  /\ loc = NoLocals
  /\ heap = EmptyHeap
  /\ pc = "start"
  /\ err = "NONE"
  /\ ret = 0
  /\ info = NoInfo
  /\ out = << >>
  /\ hist = NoHist
  /\ cb = NoBuffering
  /\ conv \in {[NoSample EXCEPT !.num = n] : n \in SampleNums}
  /\ snd = NoSound
  /\ mem = NoMemory
  /\ inOpen = TRUE
  /\ eng = NoEngine

SpecSample == InitSample /\ [][NextSample]_vars

\* ------------------------------------------------------------------ sounds

\* What no operation on sounds touches.
nosnd == << ndebug, strm, srcPos, decFrame, vorbis, loc, heap, pc, err,
            ret, info, out, hist, cb, conv, mem, inOpen, eng >>

SoundMallocOutcomes == IF snd.ooms < MaxOom THEN BOOLEAN ELSE {TRUE}

\* rbtk_signal_error on the sound paths: the error, and the abort of a
\* build without NDEBUG.
SoundSignal(s, error) ==
  [s EXCEPT !.signalled = error, !.pc = IF Aborts THEN "aborted" ELSE @]

\* RBTK_DLL_REMOVE of the element of sound k.
DllRemove(list, k) == SelectSeq(list, LAMBDA x : x # k)

\* priv_rbtk_audio_abandon: unlink and free the list element of the sound.
AudioAbandon(s, k) ==
  IF s.initialized /\ s.sounds[k].maintained
    THEN [s EXCEPT !.maintained = DllRemove(@, k), !.sounds[k].maintained = FALSE,
                   !.sounds[k].unlinked = @ + 1]
    ELSE s

\* A close that does not look at the closed flag.
CloseSoundUnguarded(s, k) ==
  [AudioAbandon([s EXCEPT !.sounds[k].calls = @ + 1, !.sounds[k].al = FALSE,
                          !.sounds[k].plat_closes = @ + 1], k)
     EXCEPT !.sounds[k].state = "closed"]

\* rbtk_close_sound: unless the sound is closed already, delete the
\* platform objects (plat_rbtk_close_sound), abandon the sound and mark it
\* closed.
CloseSoundOf(s, k) ==
  LET called == [s EXCEPT !.sounds[k].calls = @ + 1]
  IN  IF s.sounds[k].state = "closed"
        THEN called
        ELSE [AudioAbandon([called EXCEPT !.sounds[k].al = FALSE,
                                          !.sounds[k].plat_closes = @ + 1], k)
                EXCEPT !.sounds[k].state = "closed"]

RECURSIVE CloseMaintained(_)
\* The loop of priv_rbtk_audio_terminate: close and abandon the head of the
\* maintained list until the list is empty.
CloseMaintained(s) ==
  IF s.maintained = << >> THEN s
  ELSE CloseMaintained(AudioAbandon(CloseSoundOf(s, Head(s.maintained)),
                                    Head(s.maintained)))

\* priv_rbtk_audio_init; ok is the result of plat_rbtk_audio_init.
AudioInit ==
  /\ snd.pc = "running"
  /\ ~snd.initialized
  /\ \E ok \in BOOLEAN :
       snd' = IF ok THEN [snd EXCEPT !.initialized = TRUE, !.maintained = << >>,
                                     !.op = "init"]
              ELSE [snd EXCEPT !.op = "init"]
  /\ UNCHANGED nosnd

\* priv_rbtk_audio_terminate; ok is the result of plat_rbtk_audio_terminate.
AudioTerminate ==
  /\ snd.pc = "running"
  /\ snd.initialized
  /\ \E ok \in BOOLEAN :
       snd' = IF ok THEN [CloseMaintained(snd) EXCEPT !.initialized = FALSE,
                                                      !.maintained = << >>,
                                                      !.op = "terminate"]
              ELSE [CloseMaintained(snd) EXCEPT !.op = "terminate"]
  /\ UNCHANGED nosnd

\* rbtk_source_audio for source slot s.
SourceAudio(s) ==
  /\ snd.pc = "running"
  /\ snd.sources[s].state = "none"
  /\ \A t \in SourceIds : t < s => snd.sources[t].state # "none"
  /\ \E ok \in SoundMallocOutcomes :
       snd' = IF ok
                THEN [snd EXCEPT !.sources[s].state = "open",
                                 !.sources[s].wrapper = "live",
                                 !.op = "source"]
                ELSE SoundSignal([snd EXCEPT !.ooms = @ + 1, !.op = "source"],
                                 "OUT_OF_MEMORY")
  /\ UNCHANGED nosnd

\* rbtk_buffer_sound(src) for an open source s no sound owns yet; k is the
\* sound slot.  The allocations of the sound, of the platform part and of
\* the list element can fail, and so can buffer_pcm_data.
BufferSound(s, k) ==
  /\ snd.pc = "running"
  /\ snd.initialized
  /\ snd.sources[s].state = "open"
  /\ snd.sources[s].sound = 0
  /\ snd.sounds[k].state = "none"
  /\ \A j \in SoundIds : j < k => snd.sounds[j].state # "none"
  /\ \E sound_ok, plat_ok, pcm_ok, elem_ok \in SoundMallocOutcomes :
       snd' =
         IF ~sound_ok
           THEN SoundSignal([snd EXCEPT !.ooms = @ + 1, !.op = "buffer"],
                            "OUT_OF_MEMORY")
         ELSE IF ~plat_ok
           THEN \* rbtk_suggest_error: signals unless an error is outstanding
                IF snd.signalled = "NONE"
                  THEN SoundSignal([snd EXCEPT !.ooms = @ + 1, !.op = "buffer"],
                                   "OUT_OF_MEMORY")
                  ELSE [snd EXCEPT !.ooms = @ + 1, !.op = "buffer"]
         ELSE IF ~pcm_ok
           THEN \* buffer_pcm_data signalled and returned NULL
                SoundSignal([snd EXCEPT !.ooms = @ + 1, !.op = "buffer"],
                            "OUT_OF_MEMORY")
         ELSE LET made == [snd EXCEPT
                             !.op = "buffer",
                             !.sounds[k] = [NoSoundSlot EXCEPT
                                              !.state = "open", !.src = s,
                                              !.plat = "live", !.al = TRUE],
                             !.sources[s].sound = k]
              IN IF elem_ok
                   THEN [made EXCEPT !.maintained = Append(@, k),
                                     !.sounds[k].maintained = TRUE]
                   ELSE SoundSignal([made EXCEPT !.ooms = @ + 1], "OUT_OF_MEMORY")
  /\ UNCHANGED nosnd

\* rbtk_close_sound(sound) on a sound the client holds.
CloseSound(k) ==
  /\ snd.pc = "running"
  /\ snd.sounds[k].state # "none"
  /\ snd.sounds[k].calls < MaxCloses
  /\ snd' = [CloseSoundOf(snd, k) EXCEPT !.op = "close"]
  /\ UNCHANGED nosnd

\* rbtk_close_audio_source(src) on an open source that belongs to no
\* sound; ok is the result of the close hook.
CloseUnownedSource(s) ==
  /\ snd.pc = "running"
  /\ snd.sources[s].state = "open"
  /\ snd.sources[s].sound = 0
  /\ snd.sources[s].closes < MaxCloses
  /\ \E ok \in BOOLEAN :
       snd' = IF ok
                THEN [snd EXCEPT !.sources[s].closes = @ + 1,
                                 !.sources[s].wrapper = "freed",
                                 !.sources[s].state = "closed",
                                 !.op = "close_source"]
                ELSE [snd EXCEPT !.sources[s].closes = @ + 1, !.op = "close_source"]
  /\ UNCHANGED nosnd

NextSound ==
  \/ AudioInit
  \/ AudioTerminate
  \/ \E s \in SourceIds : SourceAudio(s)
  \/ \E s \in SourceIds, k \in SoundIds : BufferSound(s, k)
  \/ \E k \in SoundIds : CloseSound(k)
  \/ \E s \in SourceIds : CloseUnownedSource(s)

InitSound ==
  /\ ndebug \in BOOLEAN
  /\ strm = Stream(100, FALSE, 700, FullPull, 2, 44100,
                   << Frame(200, 4), Frame(200, 4), Frame(200, 4) >>)
  /\ srcPos = 0
  /\ decFrame = 0
  /\ vorbis = NullVorbis
  /\ loc = NoLocals
  /\ heap = EmptyHeap
  /\ pc = "start"
  /\ err = "NONE"
  /\ ret = 0
  /\ info = NoInfo
  /\ out = << >>
  /\ hist = NoHist
  /\ cb = NoBuffering
  /\ conv = NoSample
  /\ snd = NoSound
  /\ mem = NoMemory
  /\ inOpen = TRUE
  /\ eng = NoEngine

SpecSound == InitSound /\ [][NextSound]_vars

\* ----------------------------------------------------------- memory stream

\* What no operation on a memory input stream touches.
nomem == << ndebug, strm, srcPos, decFrame, vorbis, loc, heap, pc, err,
            ret, info, out, hist, cb, conv, snd, inOpen, eng >>

\* Most rbtk_read_bytes calls a client makes on the stream, and the number
\* of chunk nodes the heap has room for.
MaxReads == 3

HeapNodes == 3

\* Lengths of the memory behind the stream, and the len arguments of reads.
MemLens == {0, 1, 3, BUFFER_CHUNK_DATA_SIZE, 1500}

ReadLens == {1, 2, BUFFER_CHUNK_DATA_SIZE}

\* rbtk_read_memory_stream_bytes(in, src, buf, off, len): the bytes copied
\* are src->addr[0 .. cpy_len); src->pos is read and never written.
ReadMemoryStreamBytes(m, len) ==
  LET cpy_len == IF m.pos + len >= m.len THEN m.len - m.pos ELSE len
  IN  [count |-> cpy_len, start |-> 0, pos |-> m.pos]

\* rbtk_open_memory_in_stream(addr, len), allocation succeeding.
OpenMemoryInStream ==
  /\ mem.state = "none"
  /\ \E len \in MemLens : mem' = [mem EXCEPT !.state = "open", !.len = len]
  /\ UNCHANGED nomem

\* rbtk_read_byte on the stream (rbtk_read_memory_stream_byte).
ReadMemoryStreamByte ==
  /\ mem.state = "open"
  /\ mem.buf.pc = "idle"
  /\ mem.pos < 2
  /\ mem' = IF mem.pos >= mem.len THEN mem ELSE [mem EXCEPT !.pos = @ + 1]
  /\ UNCHANGED nomem

\* rbtk_read_bytes(in, buf, off, len) by a client.
ReadBytesCall ==
  /\ mem.state = "open"
  /\ mem.buf.pc = "idle"
  /\ Len(mem.segs) < MaxReads
  /\ \E len \in ReadLens :
       LET r == ReadMemoryStreamBytes(mem, len)
       IN  mem' = [mem EXCEPT !.pos = r.pos,
                              !.segs = Append(@, [pos |-> mem.pos, start |-> r.start,
                                                  count |-> r.count, after |-> r.pos])]
  /\ UNCHANGED nomem

\* malloc of a chunk node: fails for good once the heap is full.
NodeMallocOutcomes ==
  IF mem.buf.chunk_count < HeapNodes THEN {TRUE} ELSE {FALSE}

\* rbtk_buffer_remaining(in, size) on the stream: entry and first pull.
RemainingStart ==
  /\ mem.state = "open"
  /\ mem.buf.pc = "idle"
  /\ LET r == ReadMemoryStreamBytes(mem, BUFFER_CHUNK_DATA_SIZE)
     IN  mem' = [mem EXCEPT !.pos = r.pos,
                            !.buf.pc = "loop", !.buf.read = r.count,
                            !.buf.remaining = mem.len - mem.pos]
  /\ UNCHANGED nomem

\* One iteration of `while (read > 0)`: a node for the bytes pulled, then
\* the next pull; a failed allocation ends the call.
RemainingChunk ==
  /\ mem.buf.pc = "loop"
  /\ mem.buf.read > 0
  /\ \E ok \in NodeMallocOutcomes :
       IF ok
         THEN LET r == ReadMemoryStreamBytes(mem, BUFFER_CHUNK_DATA_SIZE)
              IN  mem' = [mem EXCEPT !.pos = r.pos,
                                     !.buf.chunk_count = @ + 1,
                                     !.buf.data_size = @ + mem.buf.read,
                                     !.buf.read = r.count]
         ELSE mem' = [mem EXCEPT !.buf.signalled = "OUT_OF_MEMORY",
                                 !.buf.pc = IF Aborts THEN "aborted" ELSE "done",
                                 !.buf.result = IF Aborts THEN @ ELSE "NULL"]
  /\ UNCHANGED nomem

\* The loop has ended with every allocation successful: the contiguous
\* buffer is filled and returned, unless its allocation fails.
RemainingFinish ==
  /\ mem.buf.pc = "loop"
  /\ mem.buf.read = 0
  /\ \E ok \in BOOLEAN :
       IF ok
         THEN mem' = [mem EXCEPT !.buf.pc = "done", !.buf.result = "buffer",
                                 !.buf.size = mem.buf.data_size]
         ELSE mem' = [mem EXCEPT !.buf.signalled = "OUT_OF_MEMORY",
                                 !.buf.pc = IF Aborts THEN "aborted" ELSE "done",
                                 !.buf.result = IF Aborts THEN @ ELSE "NULL"]
  /\ UNCHANGED nomem

NextMemory ==
  \/ OpenMemoryInStream
  \/ ReadMemoryStreamByte
  \/ ReadBytesCall
  \/ RemainingStart
  \/ RemainingChunk
  \/ RemainingFinish

InitMemory ==
  /\ ndebug \in BOOLEAN
  /\ strm = Stream(100, FALSE, 700, FullPull, 2, 44100,
                   << Frame(200, 4), Frame(200, 4), Frame(200, 4) >>)
  /\ srcPos = 0
  /\ decFrame = 0
  /\ vorbis = NullVorbis
  /\ loc = NoLocals
  /\ heap = EmptyHeap
  /\ pc = "start"
  /\ err = "NONE"
  /\ ret = 0
  /\ info = NoInfo
  /\ out = << >>
  /\ hist = NoHist
  /\ cb = NoBuffering
  /\ conv = NoSample
  /\ snd = NoSound
  /\ mem = NoMemory
  /\ inOpen = TRUE
  /\ eng = NoEngine

SpecMemory == InitMemory /\ [][NextMemory]_vars

\* ---------------------------------------------------------- engine and games

\* What no operation on the engine and its games touches.
noeng == << ndebug, strm, srcPos, decFrame, vorbis, loc, heap, pc, err,
            ret, info, out, hist, cb, conv, snd, mem, inOpen >>

\* The record of a call: what it was given and the state it was made in.
Call(op, g, s) ==
  [op |-> op, game |-> g, state |-> s, returned |-> "none", signalled |-> "NONE",
   initialized |-> eng.initialized, games |-> eng.games, states |-> eng.states]

\* A call that signals `error` and returns `value` without any other
\* effect; the build without NDEBUG aborts in rbtk_signal_error.
Fails(e, call, error, value) ==
  [e EXCEPT !.last = [call EXCEPT !.signalled = error,
                                  !.returned = IF Aborts THEN "none" ELSE value],
            !.pc = IF Aborts THEN "aborted" ELSE @]

Returns(e, call, value) == [e EXCEPT !.last = [call EXCEPT !.returned = value]]

\* The modules rbtk_engine_init initializes, in the order of its calls
\* priv_rbtk_audio_init, priv_rbtk_graphics_init, priv_rbtk_input_init.
InitModules == << "audio", "graphics", "input" >>

\* The modules whose terminate function rbtk_engine_terminate calls, in the
\* order of its calls: priv_rbtk_audio_terminate, priv_rbtk_audio_terminate
\* again where the graphics module is meant, priv_rbtk_input_terminate.
TerminateModules == << "audio", "audio", "input" >>

\* The steps of rbtk_engine_init and of rbtk_engine_terminate: 0 is the
\* platform's pre step, 1 .. 3 the module calls, 4 the platform's post step.
\* A call fails at one of them, or at none (NoFailure).
PostStep == 4

NoFailure == 5

\* The error suggested when step `fail` fails.
StepError(fail, moduleError) ==
  IF fail \in {0, PostStep} THEN "PLATFORM" ELSE moduleError

\* A module's init can fail only if the module is not initialized yet
\* (an initialized module returns true at once).
InitCanFailAt(m, fail) ==
  fail \in 1 .. Len(InitModules) => ~m[InitModules[fail]]

\* The modules initialized after rbtk_engine_init failed at step `fail`.
ModulesAfterInit(m, fail) ==
  [x \in ModuleIds |->
     m[x] \/ \E i \in 1 .. Len(InitModules) : i < fail /\ InitModules[i] = x]

\* A module's terminate can fail only if the module is still initialized
\* when the call is made.
TerminateCanFailAt(m, fail) ==
  fail \in 1 .. Len(TerminateModules) =>
    /\ m[TerminateModules[fail]]
    /\ \A j \in 1 .. fail - 1 : TerminateModules[j] # TerminateModules[fail]

\* The modules still initialized after rbtk_engine_terminate failed at step
\* `fail`: the calls before it have succeeded.
ModulesAfterTerminate(m, fail) ==
  [x \in ModuleIds |->
     m[x] /\ ~\E i \in 1 .. Len(TerminateModules) :
                i < fail /\ TerminateModules[i] = x]

\* The terminate calls rbtk_engine_terminate made per module when it failed
\* at step `fail` (the failing call included).
TerminateCalls(fail) ==
  [x \in ModuleIds |->
     Cardinality({i \in 1 .. Len(TerminateModules) :
                    i <= fail /\ TerminateModules[i] = x})]

\* rbtk_engine_init; fail is the step that fails.
EngineInit ==
  /\ eng.pc = "idle"
  /\ \E fail \in 0 .. NoFailure :
       /\ InitCanFailAt(eng.modules, fail)
       /\ eng' = IF eng.initialized
                   THEN Returns(eng, Call("init", 0, 0), "true")
                 ELSE IF fail # NoFailure
                   THEN Fails([eng EXCEPT !.current_game = 0,
                                          !.modules = ModulesAfterInit(@, fail)],
                              Call("init", 0, 0), StepError(fail, "STARTUP"), "false")
                 ELSE Returns([eng EXCEPT !.current_game = 0, !.initialized = TRUE,
                                          !.modules = ModulesAfterInit(@, fail)],
                              Call("init", 0, 0), "true")
  /\ UNCHANGED noeng

\* rbtk_engine_terminate, called outside the game loop; fail is the step
\* that fails.  rbtk_game_is_running(current_game) reads through a null
\* pointer when no game was started: the call crashes or goes on.
EngineTerminate ==
  /\ eng.pc = "idle"
  /\ \E survives \in BOOLEAN, fail \in 0 .. NoFailure :
       /\ TerminateCanFailAt(eng.modules, fail)
       /\ eng' =
            IF ~eng.initialized
              THEN Returns([eng EXCEPT !.term = NoTerminate],
                           Call("terminate", 0, 0), "true")
            ELSE IF eng.current_game = 0 /\ ~survives
              THEN [eng EXCEPT !.pc = "crashed", !.last = Call("terminate", 0, 0)]
            ELSE LET g == eng.current_game
                     stopped == IF g # 0 /\ eng.games[g].running
                                  THEN [eng EXCEPT !.games[g].running = FALSE,
                                                   !.games[g].stopped = TRUE]
                                  ELSE eng
                     done == [stopped EXCEPT
                                !.current_game = 0,
                                !.modules = ModulesAfterTerminate(@, fail),
                                !.term = [ran |-> TRUE, calls |-> TerminateCalls(fail)]]
                 IN  IF fail # NoFailure
                       THEN Fails(done, Call("terminate", 0, 0),
                                  StepError(fail, "SHUTDOWN"), "false")
                       ELSE Returns([done EXCEPT !.initialized = FALSE],
                                    Call("terminate", 0, 0), "true")
  /\ UNCHANGED noeng

\* rbtk_create_game(funs), allocation succeeding.
CreateGame(g) ==
  /\ eng.pc \in {"idle", "loop"}
  /\ ~eng.games[g].exists
  /\ \A h \in GameIds : h < g => eng.games[h].exists
  /\ eng' = IF ~eng.initialized
              THEN Fails(eng, Call("create", g, 0), "ILLEGAL_STATE", "NULL")
              ELSE Returns([eng EXCEPT !.games[g] = [NoGame EXCEPT !.exists = TRUE]],
                           Call("create", g, 0), "game")
  /\ UNCHANGED noeng

\* rbtk_create_game_state(funs), allocation succeeding.
CreateGameState(s) ==
  /\ eng.pc \in {"idle", "loop"}
  /\ ~eng.states[s].exists
  /\ \A t \in StateIds : t < s => eng.states[t].exists
  /\ eng' = Returns([eng EXCEPT !.states[s] = [NoGameState EXCEPT !.exists = TRUE]],
                    Call("create_state", 0, s), "state")
  /\ UNCHANGED noeng

\* rbtk_add_game_state(game, state).  After signalling that the state
\* belongs to another game the function goes on (unless the signal aborted
\* the process): the signal stays and the state is added all the same.
AddGameState(e, g, s) ==
  LET call == Call("add", g, s)
      st == e.states[s]
      game == e.games[g]
      foreign == st.owner # 0 /\ st.owner # g
      signalled == IF foreign THEN "ILLEGAL_STATE" ELSE "NONE"
  IN  IF st.owner = g
        THEN Returns(e, call, "true")
      ELSE IF game.running \/ game.stopped
        THEN Fails(e, call, "ILLEGAL_STATE", "false")
      ELSE IF foreign /\ Aborts
        THEN Fails(e, call, "ILLEGAL_STATE", "false")
      ELSE IF Len(game.states) >= RBTK_MAX_GAME_STATES
        THEN Fails(e, call, "OUT_OF_MEMORY", "false")
      ELSE Returns([e EXCEPT !.states[s].owner = g, !.states[s].inits = @ + 1,
                             !.games[g].states = Append(@, s)],
                   [call EXCEPT !.signalled = signalled], "true")

AddGameStateCall(g, s) ==
  /\ eng.pc \in {"idle", "loop"}
  /\ eng.games[g].exists
  /\ eng.states[s].exists
  /\ eng.adds < MaxAdds
  /\ eng' = [AddGameState(eng, g, s) EXCEPT !.adds = @ + 1]
  /\ UNCHANGED noeng

\* rbtk_start_game(game) up to its loop: the three tests, current_game and
\* start_game (which asserts that the engine is initialized).
StartGame(g) ==
  /\ eng.pc = "idle"
  /\ eng.games[g].exists
  /\ LET call == Call("start", g, 0)
     IN  eng' = IF eng.current_game # 0
                  THEN Fails(eng, call, "ILLEGAL_STATE", "false")
                ELSE IF eng.games[g].running
                  THEN Fails(eng, call, "ILLEGAL_STATE", "false")
                ELSE IF eng.games[g].stopped
                  THEN Fails(eng, call, "ILLEGAL_STATE", "false")
                ELSE IF ~eng.initialized /\ ~ndebug
                  THEN [eng EXCEPT !.current_game = g, !.pc = "assert_failed",
                                   !.last = call]
                ELSE [eng EXCEPT !.current_game = g, !.games[g].running = TRUE,
                                 !.pc = "loop", !.last = call]
  /\ UNCHANGED noeng

\* rbtk_stop_game(game), called by the hooks the loop runs or from outside.
StopGame(g) ==
  /\ eng.pc \in {"idle", "loop"}
  /\ eng.games[g].exists
  /\ eng' = IF eng.current_game = g
              THEN [eng EXCEPT !.games[g].running = FALSE, !.games[g].stopped = TRUE]
              ELSE eng
  /\ UNCHANGED noeng

\* The loop of rbtk_start_game ends once the game is not running: stop_game
\* runs the hooks and the call returns true; current_game stays as it is.
StartGameReturns ==
  /\ eng.pc = "loop"
  /\ ~eng.games[eng.current_game].running
  /\ eng' = [eng EXCEPT !.pc = "idle",
                        !.last = [Call("start", eng.current_game, 0)
                                    EXCEPT !.returned = "true"]]
  /\ UNCHANGED noeng

NextGame ==
  \/ EngineInit
  \/ EngineTerminate
  \/ \E g \in GameIds : CreateGame(g)
  \/ \E s \in StateIds : CreateGameState(s)
  \/ \E g \in GameIds, s \in StateIds : AddGameStateCall(g, s)
  \/ \E g \in GameIds : StartGame(g)
  \/ \E g \in GameIds : StopGame(g)
  \/ StartGameReturns

InitGame ==
  /\ ndebug \in BOOLEAN
  /\ strm = Stream(100, FALSE, 700, FullPull, 2, 44100,
                   << Frame(200, 4), Frame(200, 4), Frame(200, 4) >>)
  /\ srcPos = 0
  /\ decFrame = 0
  /\ vorbis = NullVorbis
  /\ loc = NoLocals
  /\ heap = EmptyHeap
  /\ pc = "start"
  /\ err = "NONE"
  /\ ret = 0
  /\ info = NoInfo
  /\ out = << >>
  /\ hist = NoHist
  /\ cb = NoBuffering
  /\ conv = NoSample
  /\ snd = NoSound
  /\ mem = NoMemory
  /\ inOpen = TRUE
  /\ eng = NoEngine

SpecGame == InitGame /\ [][NextGame]_vars

\* ------------------------------------------------------------------ claims

\* The last operation was a read_pcm call and it has returned.
ReadReturned == hist.op = "read" /\ pc = "ready"

RECURSIVE AllPcm(_)
\* Every sample of frames 1 .. k of the stream, serialized in order.
AllPcm(k) ==
  IF k = 0 THEN << >>
  ELSE AllPcm(k - 1) \o PcmBytes(k, 0, strm.frames[k].samples, strm.channels)

\* Every frame of the stream can be decoded from the smallest buffer.
SmallFrames == \A k \in 1 .. Len(strm.frames) : strm.frames[k].size <= MIN_BUFSIZE

\* With one large call per frame every frame comes out whole (SpecLarge).
LargeCallsDeliverAll ==
  (ReadReturned /\ hist.eof /\ SmallFrames /\ hist.ooms = 0)
    => hist.delivered = AllPcm(Len(strm.frames))

\* C1: for a fixed stream and decoder behaviour the bytes returned up to the
\* first end-of-source return are the same for every sequence of positive
\* buffer lengths, so the same as with one large call per frame
\* (LargeCallsDeliverAll); stated for the sequences easiest on the program,
\* every len a positive multiple of the sample-frame size.
C1_SameBytesForEveryLengths ==
  (ReadReturned /\ hist.eof /\ hist.aligned /\ SmallFrames /\ hist.ooms = 0)
    => hist.delivered = AllPcm(Len(strm.frames))

\* C2: the decode step is never invoked while decoded samples are pending.
C2_NoDecodeWhilePending ==
  pc = "read_loop" => ~(vorbis.outputs_index < vorbis.outputs_size)

\* A read_pcm call entered with pending samples and a len that is a positive
\* multiple of the sample-frame size and smaller than the pending byte count.
C3_Case ==
  /\ hist.op = "read"
  /\ pc \in {"ready", "read_loop", "assert_overrun"}
  /\ hist.pre.outputs_index < hist.pre.outputs_size
  /\ hist.len > 0
  /\ hist.len % ChannelSize(hist.pre.channels) = 0
  /\ hist.len < (hist.pre.outputs_size - hist.pre.outputs_index)
                  * ChannelSize(hist.pre.channels)

\* C3: such a call returns exactly len, advances outputs_index by
\* len / (2 * channels), leaves outputs_size, the compressed buffer and
\* buffer_offset unchanged, and makes no decoder call and no pull.
C3_PartialDrainOnly ==
  C3_Case =>
    /\ pc = "ready"
    /\ ret = hist.len
    /\ vorbis.outputs_index
         = hist.pre.outputs_index + hist.len \div ChannelSize(hist.pre.channels)
    /\ vorbis.outputs_size = hist.pre.outputs_size
    /\ vorbis.outputs = hist.pre.outputs
    /\ vorbis.buffer = hist.pre.buffer
    /\ vorbis.buffer_size = hist.pre.buffer_size
    /\ vorbis.buffer_offset = hist.pre.buffer_offset
    /\ hist.attempts = 0
    /\ hist.pulls = 0
    /\ srcPos = hist.prePos

\* 3 stereo samples pending, len 4: returns 4 and 2 samples stay pending.
C3_Witness ==
  /\ C3_Case
  /\ hist.pre.channels = 2
  /\ hist.pre.outputs_size - hist.pre.outputs_index = 3
  /\ hist.len = 4
  /\ ret = 4
  /\ vorbis.outputs_size - vorbis.outputs_index = 2

\* C4: bytes already serialized into the caller's buffer when a later step
\* of the call hits end-of-source or fails are returned with their count,
\* and added to expected_offset.
C4_PartialProgressReturned ==
  (ReadReturned /\ Len(out) > 0 /\ hist.ooms = 0)
    => /\ ret = Len(out)
       /\ vorbis.expected_offset = hist.pre.expected_offset + Len(out)

\* C5: rbtk_read_pcm returns a negative sentinel or a count n with
\* 0 <= n <= len, writes no byte of the caller's buffer at an index >= len,
\* and its overrun assertion never fails.
C5_NoOverrun ==
  /\ pc # "assert_overrun"
  /\ (hist.op = "read" /\ pc \in {"ready", "read_loop"}) => Len(out) <= hist.len
  /\ ReadReturned => (ret < 0 \/ (0 <= ret /\ ret <= hist.len))

\* A call with len 6 on a stereo source with samples to write returns 4:
\* the second sample does not fit and is not written.
C5_Witness ==
  /\ ReadReturned
  /\ hist.len = 6
  /\ vorbis.channels = 2
  /\ ret = 4
  /\ Len(out) = 4

\* C6: the capacity of the compressed buffer is at most the cap, during
\* open and across read_pcm calls.
C6_CapacityWithinCap ==
  /\ loc.bufsize <= MAX_BUFSIZE
  /\ vorbis.buffer_size <= MAX_BUFSIZE
  /\ \A b \in heap.bufs : b <= MAX_BUFSIZE

RECURSIVE Doublings(_)
\* MIN_BUFSIZE doubled while it stays within the cap: 4096, ..., 131072.
Doublings(size) ==
  IF size > MAX_BUFSIZE THEN << >> ELSE << size >> \o Doublings(size * 2)

\* The decoder never gets a header: it needs more bytes than the source has.
HeaderNeverResolves == ~strm.bad /\ strm.hdr > strm.size

\* C7: with a decoder that keeps answering need-more-data and a source that
\* keeps supplying bytes, the capacities allocated are 4096, 8192, ...,
\* 131072, and open then fails with an IO error; nothing larger is allocated.
C7_GrowthStopsAtCap ==
  (hist.op = "open" /\ HeaderNeverResolves /\ strm.size > 2 * MAX_BUFSIZE
     /\ hist.ooms = 0 /\ ~hist.junk)
    => /\ Len(hist.sizes) <= Len(Doublings(MIN_BUFSIZE))
       /\ hist.sizes = SubSeq(Doublings(MIN_BUFSIZE), 1, Len(hist.sizes))
       /\ pc \in {"open_failed", "aborted"}
            => (hist.sizes = Doublings(MIN_BUFSIZE) /\ err = "IO")

\* C8: an empty pull after a growth, with the decoder still in need of
\* data, fails open at once with an IO error: no further attempt is made.
C8_EmptyPullFailsOpen ==
  (hist.op = "open" /\ hist.grown /\ hist.pulled = 0 /\ hist.ooms = 0)
    => (pc \in {"open_failed", "aborted"} /\ err = "IO")

\* C9: when rbtk_source_ogg returns NULL every allocation made by the call
\* has been released.
C9_FailedOpenLeaksNothing ==
  pc = "open_failed"
    => (~heap.ctx /\ heap.bufs = {} /\ ~heap.decoder /\ ~heap.wrapper)

\* The header can be parsed from at most MAX_BUFSIZE leading bytes of the
\* source.
HeaderResolves == ~strm.bad /\ strm.hdr <= strm.size /\ strm.hdr <= MAX_BUFSIZE

\* C10: for every source whose header resolves within the cap open
\* succeeds, however the source splits its data across pulls, and reports
\* the decoder's sample rate and channel count with 16 bits per sample.
C10_OpenSucceedsWithinCap ==
  (HeaderResolves /\ hist.ooms = 0 /\ ~hist.junk)
    => /\ pc \notin {"open_failed", "aborted", "crashed"}
       /\ pc = "ready" => info = [frequency_hz |-> strm.rate,
                                  channel_count |-> strm.channels,
                                  bits_per_sample |-> 16]

\* C11: buffer_offset <= buffer_size in every state of a decode context:
\* in open (read_offset against bufsize, before they are stored), after the
\* header shift, after every pull, growth and decode-and-shift step.
C11_OffsetWithinSize ==
  /\ vorbis.buffer_offset <= vorbis.buffer_size
  /\ loc.read_offset <= loc.bufsize

\* C12: at every return from read_pcm outputs_index <= outputs_size, and
\* when they are equal the pending-samples reference is null.
C12_PendingClearedWhenDrained ==
  ReadReturned =>
    /\ vorbis.outputs_index <= vorbis.outputs_size
    /\ vorbis.outputs_index = vorbis.outputs_size => vorbis.outputs = 0

\* How many times capacity b occurs in the sequence s.
Count(s, b) == Cardinality({i \in 1 .. Len(s) : s[i] = b})

\* C13: no compressed buffer is freed twice, the buffer in use is a live
\* allocation, and after close every buffer allocated has been freed
\* exactly once and the decoder has been closed exactly once.
C13_FreedExactlyOnce ==
  /\ \A i \in 1 .. Len(hist.freed) :
       /\ Count(hist.freed, hist.freed[i]) = 1
       /\ Count(hist.sizes, hist.freed[i]) = 1
  /\ hist.closes <= 1
  /\ pc \in {"ready", "read_loop"}
       => (vorbis.buffer \in heap.bufs /\ heap.decoder /\ hist.closes = 0)
  /\ pc = "closed"
       => /\ \A i \in 1 .. Len(hist.sizes) : Count(hist.freed, hist.sizes[i]) = 1
          /\ heap.bufs = {}
          /\ hist.closes = 1
          /\ ~heap.decoder

\* Open without growth, read_pcm calls that grow the buffer at least twice
\* and reach the end of the source, then close.
C13_Witness ==
  /\ pc = "closed"
  /\ strm.hdr <= MIN_BUFSIZE
  /\ Len(hist.freed) >= 3
  /\ hist.eof

\* C14: when the decoder uses 0 bytes, the source supplied data and the
\* buffer is at the cap, read_pcm signals an IO error and returns the error
\* sentinel, a value other than the end-of-source sentinel.
C14_CapReturnsErrorSentinel ==
  (ReadReturned /\ hist.signalled = "IO")
    => (err = "IO" /\ ret = INT_MAX /\ ret # EOF)

\* A growth of the compressed buffer has failed in the call in progress.
GrowthFailed == hist.op \in {"open", "read"} /\ hist.oomAt.pos >= 0

\* C15: when the allocation of the doubled buffer fails the call fails with
\* Out-Of-Memory without pulling from the byte source; capacity and offset
\* are as the failure found them and offset <= capacity.  Stated for the
\* NDEBUG build, where signalling the error does not end the process.
C15_FailedGrowthFailsCall ==
  (ndebug /\ GrowthFailed) =>
    /\ pc \in {"open_failed", "ready"}
    /\ err = "OUT_OF_MEMORY"
    /\ srcPos = hist.oomAt.pos
    /\ hist.op = "read" => /\ vorbis.buffer_size = hist.oomAt.size
                           /\ vorbis.buffer_offset = hist.oomAt.offset
                           /\ vorbis.buffer_offset <= vorbis.buffer_size
                           /\ ret < 0 \/ ret = INT_MAX
    /\ ~heap.corrupt

RECURSIVE SumOf(_)
\* Total number of bytes in a sequence of pull results.
SumOf(q) == IF q = << >> THEN 0 ELSE q[1] + SumOf(Tail(q))

\* The source yields a non-empty sequence of pulls of 1 .. 1024 bytes and
\* then its end, and no allocation failed.
C16_Case ==
  /\ cb.pc = "done"
  /\ cb.ooms = 0
  /\ cb.pulls # << >>
  /\ \A i \in 1 .. Len(cb.pulls) : cb.pulls[i] \in 1 .. BUFFER_CHUNK_DATA_SIZE

\* C16: for such a source both routines return a buffer whose reported size
\* is the total number of bytes pulled and whose content is the pulled bytes
\* in pull order, short pulls included.
C16_BufferHoldsAllPulledBytes ==
  C16_Case =>
    /\ cb.result = "buffer"
    /\ cb.size = SumOf(cb.pulls)
    /\ cb.content = [i \in 1 .. Len(cb.pulls) |-> [pull |-> i, len |-> cb.pulls[i]]]

\* rbtk_buffer_remaining over pulls of 1, 1024 and 1023 bytes.
C16_Witness ==
  /\ C16_Case
  /\ cb.routine = "remaining"
  /\ cb.pulls = << 1, BUFFER_CHUNK_DATA_SIZE, 1023 >>
  /\ cb.size = 2048

\* Every node allocated so far is live or has been freed, never both, and
\* none was freed twice.
NodesAccounted ==
  /\ \A n \in 1 .. cb.chunk_count :
       Cardinality({i \in 1 .. Len(cb.freed) : cb.freed[i] = n})
         = (IF n \in cb.live THEN 0 ELSE 1)
  /\ Len(cb.freed) <= cb.chunk_count

\* What C17 says of a call: a failed allocation makes it return NULL with
\* Out-Of-Memory signalled, all nodes freed once, no buffer and *size not
\* written; a successful call leaves the returned buffer and nothing else.
AllocationFailureHandled ==
  /\ NodesAccounted
  /\ cb.signalled = "OUT_OF_MEMORY" => cb.pc \in {"after_loop", "done"}
  /\ (cb.pc = "done" /\ cb.signalled = "OUT_OF_MEMORY")
       => (cb.result = "NULL" /\ cb.live = {} /\ cb.buffers = 0 /\ cb.size = -1)
  /\ (cb.pc = "done" /\ cb.signalled = "NONE")
       => (cb.result = "buffer" /\ cb.live = {} /\ cb.buffers = 1)

C18_StopsAtFirstEmptyPull ==
  /\ \A i \in 1 .. Len(cb.pulled) :
       cb.pulled[i] \in {0, EOF} => i = Len(cb.pulled)
  /\ \A i \in 1 .. Len(cb.chunks) : cb.chunks[i].len > 0

\* C19: for every sample x in -1.0 .. 1.0 the 16-bit PCM value written is
\* clamp(trunc(32768 * x), -32768, 32767); full scale x = 1.0 is written as
\* 32767 and never as a negative value.
C19_PcmIsClampedScaledSample ==
  conv.done =>
    conv.pcm = (IF Scaled(conv.num) < -32768 THEN -32768
                ELSE IF Scaled(conv.num) > 32767 THEN 32767
                ELSE Scaled(conv.num))

\* C20: expected_offset is the sum of the non-negative counts the read_pcm
\* calls returned: a call that returns a count adds it, a call that returns
\* end-of-source or fails leaves it alone, and it never decreases.
C20_ExpectedOffsetIsSumReturned ==
  /\ pc = "ready" => vorbis.expected_offset = hist.total
  /\ (hist.op = "read" /\ pc = "read_loop")
       => vorbis.expected_offset = hist.pre.expected_offset
  /\ ReadReturned =>
       /\ vorbis.expected_offset >= hist.pre.expected_offset
       /\ ret < 0 => vorbis.expected_offset = hist.pre.expected_offset
       /\ ret >= 0 => vorbis.expected_offset = hist.pre.expected_offset + ret

\* Calls returned 16 bytes in all, the next one end-of-source:
\* expected_offset is 16 before and after it.
C20_Witness ==
  /\ ReadReturned
  /\ ret = EOF
  /\ hist.pre.expected_offset = 16
  /\ vorbis.expected_offset = 16
  /\ hist.total = 16

\* C21: once a sound made by rbtk_buffer_sound is closed with
\* rbtk_close_sound, the close hook of its audio source has run exactly
\* once and the wrapper of the source has been released.
C21_ClosedSoundClosesSource ==
  \A k \in SoundIds :
    snd.sounds[k].state = "closed" =>
      /\ snd.sources[snd.sounds[k].src].closes = 1
      /\ snd.sources[snd.sounds[k].src].wrapper = "freed"

\* The read_pcm hook has reported an error to buffer_pcm_data.
HookFailed ==
  /\ cb.routine = "pcm"
  /\ \E i \in 1 .. Len(cb.pulled) : cb.pulled[i] = INT_MAX

\* C22: when the read_pcm hook returns the error value INT_MAX,
\* rbtk_read_pcm hands it to its caller without failing its overrun
\* assertion, and buffer_pcm_data then fails (returns NULL) rather than
\* treating INT_MAX as a byte count to copy.
C22_HookErrorFailsBuffering ==
  HookFailed =>
    /\ cb.pc \notin {"assert_overrun", "crashed"}
    /\ \A i \in 1 .. Len(cb.chunks) : cb.chunks[i].len # INT_MAX
    /\ cb.pc = "done" => cb.result = "NULL"

\* C23: in every build configuration a failure in open or read_pcm signals
\* its error and returns to the caller; the process is never aborted on
\* such a path.
C23_FailuresNeverAbort ==
  hist.signalled # "NONE" => pc # "aborted"

\* C24: on a memory input stream every rbtk_read_bytes call returns the
\* bytes that start at the current position and advances the position by
\* the count it returns, so the segments returned are consecutive and do
\* not overlap; and rbtk_buffer_remaining ends with exactly the bytes that
\* remained when it was called.
C24_MemoryReadsAreConsecutive ==
  /\ \A i \in 1 .. Len(mem.segs) :
       /\ mem.segs[i].start = mem.segs[i].pos
       /\ mem.segs[i].after = mem.segs[i].pos + mem.segs[i].count
  /\ mem.buf.data_size <= mem.buf.remaining
  /\ mem.buf.result = "buffer" => mem.buf.size = mem.buf.remaining

\* C25: the offset given to read_pcm has no influence on an Ogg source.  A
\* call made in any state with any length does the same whatever offset it
\* is given: the same value returned, the same bytes written, the same
\* context and the same position of the byte source.
C25_OffsetHasNoInfluence ==
  [][(pc = "ready" /\ hist'.op = "read" /\ pc' # "closed") =>
       \A off \in Offsets :
         LET c == ReadPcmCall(off, hist'.len)
         IN  /\ vorbis' = c.vorbis
             /\ out' = c.bytes
             /\ srcPos' = c.srcPos
             /\ IF c.returns
                  THEN ret' = c.bytes_written /\ pc' \in {"ready", "assert_overrun"}
                  ELSE /\ pc' = "read_loop"
                       /\ loc'.bytes_written = c.bytes_written
                       /\ loc'.read = c.read]_vars

\* A call given a non-zero offset has written pending samples from their
\* usual place and goes on decoding.
C25_Witness ==
  /\ pc = "read_loop"
  /\ loc.off > 0
  /\ loc.bytes_written > 0

\* C26: the bytes of a read_pcm call are whole sample frames laid out one
\* after the other from the start of the caller's buffer: byte i belongs to
\* sample frame i div 2C, within it to channel (i mod 2C) div 2, and is the
\* low byte of the 16-bit value when i is even and the high byte when odd;
\* all bytes of a sample frame come from the same decoded sample.
C26_InterleavedLittleEndian ==
  out # << >> =>
    LET fs == ChannelSize(vorbis.channels)
    IN  /\ Len(out) % fs = 0
        /\ \A i \in 1 .. Len(out) :
             /\ out[i][3] = ((i - 1) % fs) \div VORBIS_BYTES_PER_SAMPLE
             /\ out[i][4] = (i - 1) % VORBIS_BYTES_PER_SAMPLE
             /\ out[i][1] = out[((i - 1) \div fs) * fs + 1][1]
             /\ out[i][2] = out[((i - 1) \div fs) * fs + 1][2]

\* A call on a three-channel source has returned two sample frames.
C26_Witness ==
  /\ ReadReturned
  /\ vorbis.channels = 3
  /\ Len(out) = 2 * ChannelSize(3)
  /\ ret = Len(out)

\* C27: for a source whose first pull is already empty both buffering
\* routines succeed: they report size 0, signal no error and allocate no
\* chunk node, whether malloc(0) returns a null pointer or not.
C27_EmptySourceSucceeds ==
  (cb.routine # "none" /\ cb.pulls = << >> /\ cb.pc \notin {"idle", "loop"}) =>
    /\ cb.pc = "done"
    /\ cb.result = "buffer"
    /\ cb.size = 0
    /\ cb.signalled = "NONE"
    /\ cb.chunk_count = 0

\* C28: no operation of an Ogg audio source closes or rewinds the byte
\* source it borrows: through open (successful or not), read_pcm and close
\* the byte source stays open and its position only moves forward, by the
\* bytes pulled.
C28_ByteSourceOnlyPulled ==
  [][inOpen' /\ srcPos' >= srcPos]_vars

\* The audio source has been closed after bytes were pulled, and the byte
\* source is open.
C28_Witness ==
  /\ pc = "closed"
  /\ hist.closes = 1
  /\ srcPos > 0
  /\ inOpen

\* The number of times state s occurs in the state lists of all games.
Listed(s) ==
  LET n(g) == Cardinality({i \in 1 .. Len(eng.games[g].states) :
                             eng.games[g].states[i] = s})
      sum[g \in 0 .. MaxGames] == IF g = 0 THEN 0 ELSE sum[g - 1] + n(g)
  IN  sum[MaxGames]

\* C29: rbtk_add_game_state given a state that belongs to a different game
\* signals ILLEGAL_STATE and returns false, and leaves the owner of the
\* state, its init hook and the state lists of all games as they were; so
\* no state is ever in the lists of two games.
C29_ForeignStateRejected ==
  /\ (/\ eng.last.op = "add"
      /\ eng.last.states[eng.last.state].owner \notin {0, eng.last.game})
       => /\ eng.last.signalled = "ILLEGAL_STATE"
          /\ eng.pc # "aborted" => eng.last.returned = "false"
          /\ eng.states = eng.last.states
          /\ eng.games = eng.last.games
  /\ \A s \in StateIds : Listed(s) <= 1

\* C30: rbtk_start_game fails only when the engine is not initialized, a
\* game is running or the game given has been stopped; so once a game has
\* been started and stopped and its rbtk_start_game call has returned,
\* another game that was never started can be started.
C30_StartFailsOnlyAsDocumented ==
  (eng.last.op = "start" /\ eng.last.signalled # "NONE") =>
    \/ ~eng.last.initialized
    \/ \E g \in GameIds : eng.last.games[g].running
    \/ eng.last.games[eng.last.game].stopped

\* C31: a read_pcm call for at least one byte returns end-of-source with no
\* error signalled only at the real end of the stream: the byte source is
\* exhausted and no decoded samples are pending.
C31_EofOnlyAtRealEnd ==
  (ReadReturned /\ hist.len > 0 /\ ret = EOF /\ hist.signalled = "NONE") =>
    /\ srcPos = strm.size
    /\ vorbis.outputs = 0

\* C32: once rbtk_close_audio_source has succeeded on an Ogg source, every
\* allocation made for it is released: the wrapper, the decoding context
\* structure, the compressed buffer and the decoder handle.
C32_CloseReleasesEverything ==
  pc = "closed" =>
    /\ ~heap.wrapper
    /\ ~heap.ctx
    /\ heap.bufs = {}
    /\ ~heap.decoder

\* C33: the decoder is only handed bytes that were pulled from the byte
\* source: the length passed to the open call and to the decode-frame call
\* never exceeds the number of bytes pulled into the buffer, and the assertion
\* before the shift never fails.
C33_DecoderHandedOnlyPulledBytes ==
  /\ pc = "open_loop" => OpenGiven <= loc.read_offset
  /\ pc = "read_loop" => DecodeGiven <= vorbis.buffer_offset
  /\ pc # "assert_consumed"

\* C34: the shift keeps exactly the unconsumed bytes.  After a successful
\* open that pulled P bytes and consumed a header of H <= P bytes,
\* buffer_offset = P - H, header_size = H and the first P - H bytes of the
\* buffer are the bytes [H, P) of the source; and after each shift in
\* read_pcm the first buffer_offset bytes of the buffer are still the last
\* buffer_offset bytes pulled from the source.
C34_ShiftKeepsUnconsumedBytes ==
  /\ (pc = "ready" /\ hist.op = "open" /\ ~hist.junk) =>
       /\ vorbis.header_size = strm.hdr
       /\ vorbis.buffer_offset = srcPos - vorbis.header_size
       /\ ~vorbis.garbled
  /\ (ReadReturned /\ ~hist.junk) => ~vorbis.garbled

\* The capacity of the compressed buffer of a source that is being opened or
\* is open.
Capacity == IF pc = "open_loop" THEN loc.bufsize ELSE vorbis.buffer_size

Maintained == {snd.maintained[i] : i \in 1 .. Len(snd.maintained)}

C37_TerminateEndsEveryModule ==
  (eng.last.op = "terminate" /\ eng.last.returned = "true" /\ eng.term.ran) =>
    /\ ~eng.initialized
    /\ \A m \in ModuleIds :
         /\ ~eng.modules[m]
         /\ eng.term.calls[m] = 1

====
